---------------------------- MODULE Spec2Model ----------------------------
(***************************************************************************)
(* Model of the archive-to-document pipeline of CodeArchiveParser          *)
(* (server/routes.ts = src/unnamed/part_001, server/storage.ts =           *)
(* src/unnamed/part_000).                                                   *)
(*                                                                         *)
(* JavaScript strings are TLA+ strings; TLC evaluates Len, \o, SubSeq,     *)
(* Head and Tail on them, so every string operation of the code (split,    *)
(* indexOf, startsWith, endsWith, substring, trim, localeCompare,          *)
(* path.extname) is computed character by character.                       *)
(* JavaScript `undefined` is the empty tuple and a defined value v is the  *)
(* one-element tuple <<v>>, so that an optional field is always a tuple.   *)
(***************************************************************************)
EXTENDS Integers, Sequences, FiniteSets, TLC

(***************************************************************************)
(* Bounds of the model.                                                    *)
(***************************************************************************)
MaxEntries == 3

(***************************************************************************)
(* JavaScript values and string primitives.                                *)
(***************************************************************************)
Undefined == <<>>

Some(v) == <<v>>

\* s.charAt(i - 1): the i-th character (1-based) as a one-character string
CharAt(s, i) == SubSeq(s, i, i)

RECURSIVE IndexFrom(_, _, _)
IndexFrom(s, c, i) ==
    IF i > Len(s) THEN -1
    ELSE IF CharAt(s, i) = c THEN i - 1
    ELSE IndexFrom(s, c, i + 1)

\* s.indexOf(c) for a one-character c: 0-based index of the first c, or -1
IndexOf(s, c) == IndexFrom(s, c, 1)

RECURSIVE LastIndexFrom(_, _, _)
LastIndexFrom(s, c, i) ==
    IF i < 1 THEN -1
    ELSE IF CharAt(s, i) = c THEN i - 1
    ELSE LastIndexFrom(s, c, i - 1)

\* s.lastIndexOf(c)
LastIndexOf(s, c) == LastIndexFrom(s, c, Len(s))

\* s.startsWith(p)
StartsWith(s, p) == Len(p) <= Len(s) /\ SubSeq(s, 1, Len(p)) = p

\* s.endsWith(p)
EndsWith(s, p) == Len(p) <= Len(s) /\ SubSeq(s, Len(s) - Len(p) + 1, Len(s)) = p

\* s.substring(from, to), 0-based, to exclusive
Substring(s, from, to) == SubSeq(s, from + 1, to)

\* s.substring(from)
SubstringFrom(s, from) == SubSeq(s, from + 1, Len(s))

\* s.split(sep) for a one-character separator: empty pieces are kept
RECURSIVE Split(_, _)
Split(s, sep) ==
    LET i == IndexOf(s, sep)
    IN  IF i = -1 THEN <<s>>
        ELSE <<Substring(s, 0, i)>> \o Split(SubstringFrom(s, i + 1), sep)

\* parts.join(sep)
RECURSIVE Join(_, _)
Join(parts, sep) ==
    IF parts = <<>> THEN ""
    ELSE IF Len(parts) = 1 THEN parts[1]
    ELSE parts[1] \o sep \o Join(Tail(parts), sep)

WhiteSpace == {" ", "\n", "\t", "\r", "\f"}

RECURSIVE TrimStart(_)
TrimStart(s) ==
    IF Len(s) > 0 /\ CharAt(s, 1) \in WhiteSpace THEN TrimStart(Tail(s)) ELSE s

RECURSIVE TrimEnd(_)
TrimEnd(s) ==
    IF Len(s) > 0 /\ CharAt(s, Len(s)) \in WhiteSpace
    THEN TrimEnd(SubSeq(s, 1, Len(s) - 1)) ELSE s

\* s.trim()
Trim(s) == TrimEnd(TrimStart(s))

UpperCase == "ABCDEFGHIJKLMNOPQRSTUVWXYZ"

LowerCase == "abcdefghijklmnopqrstuvwxyz"

\* every character the model compares or converts, and its lower-case form
Alphabet ==
    {CharAt(s, i) : s \in {UpperCase, LowerCase}, i \in 1..26}
    \cup {" ", "_", "-", ",", ";", ":", "!", "?", ".", "'", "(", ")", "[", "]",
          "{", "}", "@", "*", "/", "&", "#", "%", "+", "<", "=", ">", "|", "~",
          "$", "\n", "\t", "\r", "\f",
          "0", "1", "2", "3", "4", "5", "6", "7", "8", "9"}

LowerOf ==
    [c \in Alphabet |->
        LET i == IndexOf(UpperCase, c)
        IN  IF i = -1 THEN c ELSE CharAt(LowerCase, i + 1)]

ToLowerChar(c) == LowerOf[c]

\* s.toLowerCase()
RECURSIVE ToLowerCase(_)
ToLowerCase(s) ==
    IF Len(s) = 0 THEN "" ELSE ToLowerChar(Head(s)) \o ToLowerCase(Tail(s))

Digits == "0123456789"

\* a < b for two canonical decimal numerals (no leading zero), as numbers
RECURSIVE DigitsLess(_, _, _)
DigitsLess(a, b, i) ==
    IF i > Len(a) THEN FALSE
    ELSE IF IndexOf(Digits, CharAt(a, i)) < IndexOf(Digits, CharAt(b, i)) THEN TRUE
    ELSE IF IndexOf(Digits, CharAt(a, i)) > IndexOf(Digits, CharAt(b, i)) THEN FALSE
    ELSE DigitsLess(a, b, i + 1)

NumeralLess(a, b) ==
    Len(a) < Len(b) \/ (Len(a) = Len(b) /\ DigitsLess(a, b, 1))

(***************************************************************************)
(* a.localeCompare(b) under the root collation (ICU/CLDR): characters are  *)
(* compared by primary weight first (punctuation, then digits, then        *)
(* letters, case ignored), the first primary difference decides, a proper  *)
(* prefix sorts first, and between strings equal at the primary level the  *)
(* first case difference decides, lower case first.                        *)
(***************************************************************************)
PrimaryOrder == " _-,;:!?.'()[]{}@*/&#%+<=>|~$0123456789abcdefghijklmnopqrstuvwxyz"

WeightOf == [c \in Alphabet |-> IndexOf(PrimaryOrder, LowerOf[c])]

PrimaryWeight(c) == WeightOf[c]

RECURSIVE ComparePrimary(_, _, _)
ComparePrimary(a, b, i) ==
    IF i > Len(a) /\ i > Len(b) THEN 0
    ELSE IF i > Len(a) THEN -1
    ELSE IF i > Len(b) THEN 1
    ELSE IF CharAt(a, i) = CharAt(b, i) THEN ComparePrimary(a, b, i + 1)
    ELSE IF PrimaryWeight(CharAt(a, i)) < PrimaryWeight(CharAt(b, i)) THEN -1
    ELSE IF PrimaryWeight(CharAt(a, i)) > PrimaryWeight(CharAt(b, i)) THEN 1
    ELSE ComparePrimary(a, b, i + 1)

RECURSIVE CompareCase(_, _, _)
CompareCase(a, b, i) ==
    IF i > Len(a) THEN 0
    ELSE IF CharAt(a, i) = CharAt(b, i) THEN CompareCase(a, b, i + 1)
    ELSE IF CharAt(a, i) = ToLowerChar(CharAt(a, i)) THEN -1
    ELSE 1

localeCompare(a, b) ==
    LET p == ComparePrimary(a, b, 1)
    IN  IF p # 0 THEN p ELSE CompareCase(a, b, 1)

(***************************************************************************)
(* Extension / ignore policy.                                              *)
(***************************************************************************)
ALLOWED_EXTENSIONS ==
    { ".js", ".jsx", ".ts", ".tsx", ".py", ".java", ".cpp", ".c", ".h", ".cs",
      ".php", ".rb", ".go", ".rs", ".swift", ".kt", ".scala", ".clj", ".hs",
      ".html", ".htm", ".css", ".scss", ".sass", ".less", ".xml", ".svg",
      ".json", ".yaml", ".yml", ".toml", ".ini", ".cfg", ".config",
      ".md", ".txt", ".rst", ".adoc", ".tex",
      ".sql", ".sh", ".bat", ".ps1", ".dockerfile", ".gitignore", ".env" }

IGNORE_PATTERNS ==
    { "node_modules", ".git", ".svn", ".hg", "dist", "build", "target",
      ".next", ".nuxt", "coverage", ".nyc_output", ".cache", "logs",
      "__pycache__", ".pytest_cache", ".tox", "venv", "env",
      ".DS_Store", "Thumbs.db", ".vscode", ".idea" }

\* part => IGNORE_PATTERNS.has(part) || part.startsWith('.')
IgnoredPart(part) == part \in IGNORE_PATTERNS \/ StartsWith(part, ".")

\* a plausible slip: the leading-dot rule is forgotten
shouldIgnoreNoDotRule(filePath) ==
    LET parts == Split(filePath, "/")
    IN  \E i \in 1..Len(parts) : parts[i] \in IGNORE_PATTERNS

shouldIgnore(filePath) ==
    LET parts == Split(filePath, "/")
    IN  \E i \in 1..Len(parts) : IgnoredPart(parts[i])

(***************************************************************************)
(* path.extname of a file name without directory separators (node:path):   *)
(* the text from the last '.' on; "" when there is no '.', when the only   *)
(* '.' is the first character, and for "..".                               *)
(***************************************************************************)
extname(name) ==
    LET startDot == LastIndexOf(name, ".")
    IN  IF startDot = -1 \/ startDot = 0 \/ name = ".." THEN ""
        ELSE SubstringFrom(name, startDot)

getFileExtension(filename) == ToLowerCase(extname(filename))

langMap ==
    { <<".js", "javascript">>, <<".jsx", "jsx">>, <<".ts", "typescript">>,
      <<".tsx", "tsx">>, <<".py", "python">>, <<".java", "java">>,
      <<".cpp", "cpp">>, <<".c", "c">>, <<".h", "c">>, <<".cs", "csharp">>,
      <<".php", "php">>, <<".rb", "ruby">>, <<".go", "go">>, <<".rs", "rust">>,
      <<".swift", "swift">>, <<".kt", "kotlin">>, <<".scala", "scala">>,
      <<".html", "html">>, <<".htm", "html">>, <<".css", "css">>,
      <<".scss", "scss">>, <<".sass", "sass">>, <<".json", "json">>,
      <<".yaml", "yaml">>, <<".yml", "yaml">>, <<".xml", "xml">>,
      <<".svg", "xml">>, <<".md", "markdown">>, <<".sql", "sql">>,
      <<".sh", "bash">>, <<".dockerfile", "dockerfile">> }

\* langMap[ext] || 'text'
getLanguageFromExtension(ext) ==
    IF \E m \in langMap : m[1] = ext
    THEN (CHOOSE m \in langMap : m[1] = ext)[2]
    ELSE "text"

(***************************************************************************)
(* Archive entries (AdmZip.IZipEntry): entryName, isDirectory and the      *)
(* decompressed bytes; header.size is the length of the bytes.  adm-zip    *)
(* sets isDirectory exactly for the names that end with '/'.  readable     *)
(* says whether getData() returns the bytes; on an entry that cannot be    *)
(* decompressed getData() throws.                                          *)
(***************************************************************************)
Entry(name, data) ==
    [entryName |-> name, isDirectory |-> EndsWith(name, "/"), data |-> data,
     readable |-> TRUE]

\* an entry whose getData() throws (damaged or unsupported compressed data)
UnreadableEntry(name, data) == [Entry(name, data) EXCEPT !.readable = FALSE]

\* entry.getData() returns
Readable(entry) == entry.readable

HeaderSize(entry) == Len(entry.data)

\* entry.getData().toString('utf8')
GetData(entry) == entry.data

(***************************************************************************)
(* entries.sort((a, b) => a.entryName.localeCompare(b.entryName)):         *)
(* Array.prototype.sort is stable, entries that compare equal keep their   *)
(* order.                                                                  *)
(***************************************************************************)
InsertSorted(sorted, e) ==
    LET k == Cardinality({i \in 1..Len(sorted) :
                            localeCompare(sorted[i].entryName, e.entryName) <= 0})
    IN  SubSeq(sorted, 1, k) \o <<e>> \o SubSeq(sorted, k + 1, Len(sorted))

RECURSIVE SortByEntryName(_)
SortByEntryName(seq) ==
    IF seq = <<>> THEN <<>>
    ELSE InsertSorted(SortByEntryName(SubSeq(seq, 1, Len(seq) - 1)), seq[Len(seq)])

\* lines 56-58: filter, then sort
validEntriesOf(entries) ==
    SortByEntryName(SelectSeq(entries, LAMBDA e : ~shouldIgnore(e.entryName)))

(***************************************************************************)
(* The common root prefix, lines 61-71 (buildFileTree, over validEntries)  *)
(* and lines 244-254 (the upload handler, over all entries): the same      *)
(* code over a different list.                                             *)
(***************************************************************************)
potentialPrefixOf(firstPath) ==
    Substring(firstPath, 0, IndexOf(firstPath, "/") + 1)

\* a plausible slip: the every() test of line 66 is missing
treeCommonPrefixOfFirst(validEntries) ==
    IF Len(validEntries) > 0 /\ IndexOf(validEntries[1].entryName, "/") > 0
    THEN potentialPrefixOf(validEntries[1].entryName)
    ELSE ""

treeCommonPrefix(validEntries) ==
    IF Len(validEntries) > 0 /\ IndexOf(validEntries[1].entryName, "/") > 0
       /\ \A i \in 1..Len(validEntries) :
             StartsWith(validEntries[i].entryName,
                        potentialPrefixOf(validEntries[1].entryName))
    THEN potentialPrefixOf(validEntries[1].entryName)
    ELSE ""

handlerCommonPrefix(entries) ==
    IF Len(entries) > 0 /\ IndexOf(entries[1].entryName, "/") > 0
       /\ \A i \in 1..Len(entries) :
             StartsWith(entries[i].entryName, potentialPrefixOf(entries[1].entryName))
    THEN potentialPrefixOf(entries[1].entryName)
    ELSE ""

\* lines 75-77
cleanPathOf(entryName, commonPrefix) ==
    IF StartsWith(entryName, commonPrefix)
    THEN SubstringFrom(entryName, Len(commonPrefix))
    ELSE entryName

\* line 79: cleanPath.split('/').filter(part => part.length > 0)
partsOf(cleanPath) == SelectSeq(Split(cleanPath, "/"), LAMBDA part : Len(part) > 0)

(***************************************************************************)
(* The intermediate tree `root` is a plain JavaScript object used as a     *)
(* map from segment name to node.  It is modelled as the sequence of its   *)
(* own properties in creation order; a node's `children` is Undefined or   *)
(* Some(object).  `current[part]` also finds the properties every object   *)
(* inherits from Object.prototype, all of them truthy and none of them     *)
(* with a `children` property.                                             *)
(***************************************************************************)
ObjectPrototypeKeys ==
    { "constructor", "__proto__", "toString", "toLocaleString", "valueOf",
      "hasOwnProperty", "isPrototypeOf", "propertyIsEnumerable",
      "__defineGetter__", "__defineSetter__", "__lookupGetter__",
      "__lookupSetter__" }

OwnIndex(current, part) == {k \in 1..Len(current) : current[k].name = part}

\* a plausible slip: the node's path is its own name, not the joined segments
NewNodeNameAsPath(parts, index, entry) ==
    LET isFile == index = Len(parts) /\ ~entry.isDirectory
    IN  [name      |-> parts[index],
         path      |-> parts[index],
         type      |-> IF isFile THEN "file" ELSE "folder",
         size      |-> IF isFile THEN Some(HeaderSize(entry)) ELSE Undefined,
         extension |-> IF isFile THEN Some(getFileExtension(parts[index])) ELSE Undefined,
         children  |-> IF isFile THEN Undefined ELSE Some(<<>>)]

\* a plausible slip: the node of a directory entry gets no children map
NewNodeDirWithoutChildren(parts, index, entry) ==
    LET isFile == index = Len(parts) /\ ~entry.isDirectory
    IN  [name      |-> parts[index],
         path      |-> Join(SubSeq(parts, 1, index), "/"),
         type      |-> IF isFile THEN "file" ELSE "folder",
         size      |-> IF isFile THEN Some(HeaderSize(entry)) ELSE Undefined,
         extension |-> IF isFile THEN Some(getFileExtension(parts[index])) ELSE Undefined,
         children  |-> IF index = Len(parts) THEN Undefined ELSE Some(<<>>)]

\* lines 86-94: the node created for parts[index] (index is 1-based here)
NewNode(parts, index, entry) ==
    LET isFile == index = Len(parts) /\ ~entry.isDirectory
    IN  [name      |-> parts[index],
         path      |-> Join(SubSeq(parts, 1, index), "/"),
         type      |-> IF isFile THEN "file" ELSE "folder",
         size      |-> IF isFile THEN Some(HeaderSize(entry)) ELSE Undefined,
         extension |-> IF isFile THEN Some(getFileExtension(parts[index])) ELSE Undefined,
         children  |-> IF isFile THEN Undefined ELSE Some(<<>>)]

(***************************************************************************)
(* lines 84-99, the walk over the parts of one entry from parts[index] on, *)
(* starting in the object `current`.  The result is the updated object,    *)
(* or threw = TRUE when the walk steps into `undefined` (the children of   *)
(* a file node or of an inherited property) and reads current[part] of it: *)
(* a TypeError that leaves buildFileTree.                                  *)
(***************************************************************************)
RECURSIVE InsertParts(_, _, _, _)
InsertParts(current, parts, index, entry) ==
    LET part == parts[index]
        own  == OwnIndex(current, part)
        last == index = Len(parts)
    IN  IF own # {}
        THEN LET k == CHOOSE k \in own : TRUE
             IN  IF last THEN [threw |-> FALSE, obj |-> current]
                 ELSE IF current[k].children = Undefined
                 THEN [threw |-> TRUE, obj |-> current]
                 ELSE LET r == InsertParts(current[k].children[1], parts, index + 1, entry)
                      IN  [threw |-> r.threw,
                           obj   |-> [current EXCEPT ![k].children = Some(r.obj)]]
        ELSE IF part \in ObjectPrototypeKeys
        THEN [threw |-> ~last, obj |-> current]
        ELSE LET node == NewNode(parts, index, entry)
             IN  IF last THEN [threw |-> FALSE, obj |-> Append(current, node)]
                 ELSE LET r == InsertParts(<<>>, parts, index + 1, entry)
                      IN  [threw |-> r.threw,
                           obj   |-> Append(current, [node EXCEPT !.children = Some(r.obj)])]

\* lines 73-100: validEntries.forEach(...), from entry number i on
RECURSIVE InsertEntries(_, _, _, _)
InsertEntries(root, validEntries, i, commonPrefix) ==
    IF i > Len(validEntries) THEN [threw |-> FALSE, obj |-> root]
    ELSE LET parts == partsOf(cleanPathOf(validEntries[i].entryName, commonPrefix))
         IN  IF Len(parts) = 0
             THEN InsertEntries(root, validEntries, i + 1, commonPrefix)
             ELSE LET r == InsertParts(root, parts, 1, validEntries[i])
                  IN  IF r.threw THEN r
                      ELSE InsertEntries(r.obj, validEntries, i + 1, commonPrefix)

(***************************************************************************)
(* Object.values(node): the own properties whose key is an array index (a  *)
(* canonical decimal integer below 2^32 - 1) come first, in ascending      *)
(* numeric order; the other string keys follow in creation order.          *)
(***************************************************************************)
MaxArrayIndex == "4294967294"

IsArrayIndex(key) ==
    /\ Len(key) > 0
    /\ \A i \in 1..Len(key) : IndexOf(Digits, CharAt(key, i)) # -1
    /\ (Len(key) = 1 \/ CharAt(key, 1) # "0")
    /\ ~NumeralLess(MaxArrayIndex, key)

RECURSIVE SortByIndexKey(_)
SortByIndexKey(items) ==
    IF items = <<>> THEN <<>>
    ELSE LET sorted == SortByIndexKey(SubSeq(items, 1, Len(items) - 1))
             e == items[Len(items)]
             k == Cardinality({i \in 1..Len(sorted) :
                                 NumeralLess(sorted[i].name, e.name)})
         IN  SubSeq(sorted, 1, k) \o <<e>> \o SubSeq(sorted, k + 1, Len(sorted))

ObjectValues(obj) ==
    SortByIndexKey(SelectSeq(obj, LAMBDA item : IsArrayIndex(item.name)))
    \o SelectSeq(obj, LAMBDA item : ~IsArrayIndex(item.name))

\* lines 102-107
RECURSIVE convertToArray(_)
convertToArray(node) ==
    LET items == ObjectValues(node)
    IN  [i \in 1..Len(items) |->
            [items[i] EXCEPT !.children =
                IF items[i].children # Undefined
                THEN Some(convertToArray(items[i].children[1]))
                ELSE Undefined]]

\* a plausible slip: the prefix is never stripped
buildFileTreeNoStrip(entries) ==
    LET validEntries == validEntriesOf(entries)
        r == InsertEntries(<<>>, validEntries, 1, "")
    IN  [threw |-> r.threw, commonPrefix |-> "",
         tree |-> IF r.threw THEN <<>> ELSE convertToArray(r.obj)]

(***************************************************************************)
(* buildFileTree, lines 52-110.  threw = TRUE when the function is left by *)
(* a TypeError; commonPrefix records the value of its local variable of    *)
(* that name.                                                              *)
(***************************************************************************)
buildFileTree(entries) ==
    LET validEntries == validEntriesOf(entries)
        commonPrefix == treeCommonPrefix(validEntries)
        r == InsertEntries(<<>>, validEntries, 1, commonPrefix)
    IN  [threw |-> r.threw, commonPrefix |-> commonPrefix,
         tree |-> IF r.threw THEN <<>> ELSE convertToArray(r.obj)]

(***************************************************************************)
(* Rendering.  The box-drawing connectors and the icons of the source are  *)
(* written with ASCII stand-ins of the same length in characters:          *)
(* "+-- " for the last-sibling connector, "|-- " for the others, "|   "    *)
(* for the vertical bar, "D " for the folder icon and "F " for the file    *)
(* icon.  The code fence of three backquotes is written "~~~".             *)
(***************************************************************************)
Fence == "~~~"

LastConnector == "+-- "

MidConnector == "|-- "

FolderIcon == "D "

FileIcon == "F "

\* lines 157-174 (the parameter isLast of the source is never read)
RECURSIVE generateFileTreeString(_, _)
RECURSIVE TreeStringFrom(_, _, _)
\* a plausible slip: the children's prefix does not depend on isLastItem
TreeStringFromBarOnly(nodes, prefix, index) ==
    IF index > Len(nodes) THEN ""
    ELSE LET node == nodes[index]
             isLastItem == index = Len(nodes)
             connector == IF isLastItem THEN LastConnector ELSE MidConnector
             icon == IF node.type = "folder" THEN FolderIcon ELSE FileIcon
             line == prefix \o connector \o icon \o node.name \o "\n"
             below == IF node.children # Undefined /\ Len(node.children[1]) > 0
                      THEN generateFileTreeString(node.children[1], prefix \o "|   ")
                      ELSE ""
         IN  line \o below \o TreeStringFrom(nodes, prefix, index + 1)

TreeStringFrom(nodes, prefix, index) ==
    IF index > Len(nodes) THEN ""
    ELSE LET node == nodes[index]
             isLastItem == index = Len(nodes)
             connector == IF isLastItem THEN LastConnector ELSE MidConnector
             icon == IF node.type = "folder" THEN FolderIcon ELSE FileIcon
             line == prefix \o connector \o icon \o node.name \o "\n"
             below == IF node.children # Undefined /\ Len(node.children[1]) > 0
                      THEN generateFileTreeString(node.children[1],
                               prefix \o (IF isLastItem THEN "    " ELSE "|   "))
                      ELSE ""
         IN  line \o below \o TreeStringFrom(nodes, prefix, index + 1)

generateFileTreeString(nodes, prefix) == TreeStringFrom(nodes, prefix, 1)

\* lines 112-117
formatFileContent(filename, content) ==
    "### " \o filename \o "\n" \o Fence
    \o getLanguageFromExtension(getFileExtension(filename))
    \o "\n" \o content \o "\n" \o Fence \o "\n\n"

\* a plausible slip: a final newline is not counted as one more line
lineCountNoTrailing(content) ==
    IF EndsWith(content, "\n") THEN Len(Split(content, "\n")) - 1
    ELSE Len(Split(content, "\n"))

\* line 233: content.split('\n').length
lineCount(content) == Len(Split(content, "\n"))

(***************************************************************************)
(* line 228: entries.find(e => e.entryName === originalPath ||             *)
(* e.entryName.endsWith('/' + node.path)) over ALL entries of the archive, *)
(* in archive order; 0 when there is none.                                 *)
(***************************************************************************)
FindEntry(entries, originalPath, nodePath) ==
    LET hits == {i \in 1..Len(entries) :
                    \/ entries[i].entryName = originalPath
                    \/ EndsWith(entries[i].entryName, "/" \o nodePath)}
    IN  IF hits = {} THEN 0 ELSE CHOOSE i \in hits : \A j \in hits : i <= j

(***************************************************************************)
(* processNode, lines 215-241.  `acc` holds the variables of the handler   *)
(* that processNode updates (formattedContent, totalFiles, totalFolders,   *)
(* linesOfCode) and a history field `embedded`: for every block appended,  *)
(* the node's path, the number of the entry whose bytes were embedded and  *)
(* the embedded text.                                                      *)
(***************************************************************************)
\* a plausible slip: files whose content is not embedded are not counted
countFileOnlyWhenEmbedded(acc, embeds) ==
    IF embeds THEN [acc EXCEPT !.totalFiles = @ + 1] ELSE acc

\* line 222
countFile(acc, embeds) == [acc EXCEPT !.totalFiles = @ + 1]

\* lines 223-235: whether a block is appended for the file node, and from which entry
EntryFor(node, entries, commonPrefix) ==
    FindEntry(entries, commonPrefix \o node.path, node.path)

\* a plausible slip: the allow-list test of line 224 is missing
EmbedsAnyExtension(node, entries, commonPrefix) ==
    LET e == EntryFor(node, entries, commonPrefix)
    IN  /\ e # 0
        /\ ~entries[e].isDirectory
        /\ Readable(entries[e])
        /\ Trim(GetData(entries[e])) # ""

\* a plausible slip: the content.trim() test of line 231 is missing
EmbedsBlankContent(node, entries, commonPrefix) ==
    LET e == EntryFor(node, entries, commonPrefix)
    IN  /\ getFileExtension(node.name) \in ALLOWED_EXTENSIONS
        /\ e # 0
        /\ ~entries[e].isDirectory
        /\ Readable(entries[e])

\* a plausible slip: a failed read goes unnoticed and whatever bytes are
\* there are embedded
EmbedsUnreadable(node, entries, commonPrefix) ==
    LET e == EntryFor(node, entries, commonPrefix)
    IN  /\ getFileExtension(node.name) \in ALLOWED_EXTENSIONS
        /\ e # 0
        /\ ~entries[e].isDirectory
        /\ Trim(GetData(entries[e])) # ""

\* getData() throwing lands in the catch of lines 236-238, which only logs:
\* nothing is appended for the node
Embeds(node, entries, commonPrefix) ==
    LET e == EntryFor(node, entries, commonPrefix)
    IN  /\ getFileExtension(node.name) \in ALLOWED_EXTENSIONS
        /\ e # 0
        /\ ~entries[e].isDirectory
        /\ Readable(entries[e])
        /\ Trim(GetData(entries[e])) # ""

RECURSIVE processNode(_, _, _, _)
RECURSIVE processNodes(_, _, _, _, _)
processNode(acc, node, entries, commonPrefix) ==
    IF node.type = "folder"
    THEN LET counted == [acc EXCEPT !.totalFolders = @ + 1]
         IN  IF node.children # Undefined
             THEN processNodes(counted, node.children[1], 1, entries, commonPrefix)
             ELSE counted
    ELSE LET embeds == Embeds(node, entries, commonPrefix)
             counted == countFile(acc, embeds)
         IN  IF embeds
             THEN LET e == EntryFor(node, entries, commonPrefix)
                      content == GetData(entries[e])
                  IN  [counted EXCEPT
                          !.formattedContent = @ \o formatFileContent(node.path, content),
                          !.linesOfCode = @ + lineCount(content),
                          !.embedded = Append(@, [path |-> node.path, entry |-> e,
                                                  content |-> content])]
             ELSE counted

\* a plausible slip: the siblings are walked from the last to the first
processNodesBackwards(acc, nodes, i, entries, commonPrefix) ==
    IF i > Len(nodes) THEN acc
    ELSE processNodes(processNode(acc, nodes[Len(nodes) + 1 - i], entries, commonPrefix),
                      nodes, i + 1, entries, commonPrefix)

\* nodes.forEach(child => processNode(child, commonPrefix)), from child i on
processNodes(acc, nodes, i, entries, commonPrefix) ==
    IF i > Len(nodes) THEN acc
    ELSE processNodes(processNode(acc, nodes[i], entries, commonPrefix),
                      nodes, i + 1, entries, commonPrefix)

\* lines 206-209
documentHeader(fileTree) ==
    "# Project Structure and Contents\n\n" \o "## File Tree\n\n" \o Fence \o "\n"
    \o generateFileTreeString(fileTree, "") \o Fence \o "\n\n## File Contents\n\n"

\* lines 205-256: the document and the counters of one run
processTree(fileTree, entries) ==
    processNodes([formattedContent |-> documentHeader(fileTree),
                  totalFiles |-> 0, totalFolders |-> 0, linesOfCode |-> 0,
                  embedded |-> <<>>],
                 fileTree, 1, entries, handlerCommonPrefix(entries))

(***************************************************************************)
(* The two display strings of the statistics, lines 258-266.  x.toFixed(1) *)
(* is the decimal numeral of x rounded to the nearest tenth; `tenths` is   *)
(* that number of tenths.                                                  *)
(***************************************************************************)
RECURSIVE DecimalOf(_)
DecimalOf(n) ==
    IF n < 10 THEN CharAt(Digits, n + 1)
    ELSE DecimalOf(n \div 10) \o CharAt(Digits, (n % 10) + 1)

toFixed1(tenths) == DecimalOf(tenths \div 10) \o "." \o DecimalOf(tenths % 10)

\* lines 259 and 265: (req.file.size / (1024 * 1024)).toFixed(1) + 'MB'; a
\* number of bytes is never half-way between two tenths of a megabyte
fileSizeOf(size) == toFixed1((size * 10 + 524288) \div 1048576) \o "MB"

\* lines 258 and 266: ((Date.now() - startTime) / 1000).toFixed(1) + 's'
processingTimeOf(ms) == toFixed1((ms + 50) \div 100) \o "s"

\* Date.now() - startTime: the clock is not under the handler's control.
\* The values stay clear of the half-way points, where toFixed rounds the
\* binary fraction and not the decimal one.
ElapsedMs == {0, 120}

\* the size in bytes of the archive that stores the entries uncompressed:
\* per entry a local header and a central directory record, each with the
\* name, and the bytes; then the end-of-central-directory record
RECURSIVE StoredSize(_)
StoredSize(entries) ==
    IF entries = <<>> THEN 22
    ELSE 30 + 46 + 2 * Len(Head(entries).entryName) + Len(Head(entries).data)
         + StoredSize(Tail(entries))

(***************************************************************************)
(* MemStorage (storage.ts): two maps keyed by auto-incremented ids.        *)
(***************************************************************************)
\* Map.prototype.set
MapSet(map, key, value) ==
    [k \in (DOMAIN map) \cup {key} |-> IF k = key THEN value ELSE map[k]]

(***************************************************************************)
(* The requests.  A POST /api/upload request carries no file, a file that  *)
(* adm-zip cannot open, or an archive: a sequence of distinct entries of   *)
(* EntryPool, in archive order.                                            *)
(***************************************************************************)
EntryPool ==
    { Entry("proj/src/a.py", "print(1)\n"),
      Entry("proj/src/b.txt", ""),
      Entry("proj/node_modules/x.js", "x"),
      Entry("proj/node_modules/src/a.py", "evil"),
      Entry("proj/src/", ""),
      Entry("proj/", ""),
      Entry("proj/constructor", "c"),
      Entry("a/x.md", "# x"),
      Entry("b/y.md", "y\nz"),
      Entry("a", "f"),
      Entry("10", "t"),
      Entry("2", "t"),
      Entry(".gitignore", "x") }

Archives ==
    UNION { {s \in [1..n -> EntryPool] : \A i, j \in 1..n : s[i] = s[j] => i = j} :
            n \in 0..MaxEntries }

\* a request without file; a file of four bytes that is no archive
NoFileRequest == [hasFile |-> FALSE, corrupt |-> FALSE, entries |-> <<>>, size |-> 0]

CorruptRequest == [hasFile |-> TRUE, corrupt |-> TRUE, entries |-> <<>>, size |-> 4]

ArchiveRequest(a) ==
    [hasFile |-> TRUE, corrupt |-> FALSE, entries |-> a, size |-> StoredSize(a)]

Requests ==
    {NoFileRequest, CorruptRequest} \cup {ArchiveRequest(a) : a \in Archives}

(***************************************************************************)
(* A second set of archives, for the per-file rules of processNode: an     *)
(* upper-case extension, no extension, an extension off the allow-list,    *)
(* whitespace-only and empty content, an entry whose getData() throws, a   *)
(* name with an empty segment (the node's path then differs from the       *)
(* entry's name), a file at the top level, a file of the same name one     *)
(* folder down, and the case in which buildFileTree throws.                *)
(***************************************************************************)
FilePool ==
    { Entry("proj/Main.PY", "x = 1\n"),
      Entry("proj/README", "hi"),
      Entry("proj/img.png", "PNG"),
      Entry("proj/c.js", " \n\t"),
      Entry("proj/e.txt", ""),
      UnreadableEntry("proj/d.ts", "let d\n"),
      Entry("proj//f.md", "f"),
      Entry("g.md", "g\n"),
      Entry("g.md/h.md", "h"),
      Entry("proj/g.md", "pg") }

FileArchives ==
    UNION { {s \in [1..n -> FilePool] : \A i, j \in 1..n : s[i] = s[j] => i = j} :
            n \in 0..MaxEntries }

FileRequests ==
    {NoFileRequest, CorruptRequest} \cup {ArchiveRequest(a) : a \in FileArchives}

(***************************************************************************)
(* State: one POST /api/upload request running through the handler of      *)
(* lines 178-304, and the MemStorage singleton.  pc is the handler's       *)
(* position: "start", "created" (suspended at await createUpload),         *)
(* "saved" (suspended at await createProcessedFile), "done" (response      *)
(* sent).  treePrefix and embedded are history variables: the prefix       *)
(* buildFileTree stripped, and the blocks processNode appended.  response  *)
(* is the sequence of the responses sent (res.json), empty until the       *)
(* handler answers.  handlers holds the requests that are in flight at     *)
(* the same time (see SpecTwo below); it is empty while one request runs   *)
(* alone.  calls is the log of the calls made on the MemStorage directly   *)
(* (SpecStore), fetched the last answer of GET /api/processed/:uploadId,   *)
(* client the state of the FileUpload component in the browser             *)
(* (SpecClient).                                                           *)
(***************************************************************************)
VARIABLES request, pc, uploads, processedFiles, currentUploadId,
          currentProcessedId, upload, fileTree, treePrefix, formattedContent,
          stats, embedded, tmpFile, response, handlers, calls, fetched, client

vars == <<request, pc, uploads, processedFiles, currentUploadId,
          currentProcessedId, upload, fileTree, treePrefix, formattedContent,
          stats, embedded, tmpFile, response, handlers, calls, fetched, client>>

\* the FileUpload component after its first render (file-upload.tsx 26-27,
\* upload.tsx 11): nothing selected, no timer, the mutation idle.  timers
\* holds the numbers of the selections whose setInterval is still live.
ClientInit ==
    [uploadProgress |-> 0, isProcessing |-> FALSE, error |-> Undefined,
     mutation |-> "idle", selections |-> 0, timers |-> {}]

InitFrom(requests) ==
    /\ request \in requests
    /\ pc = "start"
    /\ uploads = <<>>
    /\ processedFiles = <<>>
    /\ currentUploadId = 1
    /\ currentProcessedId = 1
    /\ upload = Undefined
    /\ fileTree = Undefined
    /\ treePrefix = Undefined
    /\ formattedContent = ""
    /\ stats = Undefined
    /\ embedded = <<>>
    /\ tmpFile = request.hasFile
    /\ response = Undefined
    /\ handlers = <<>>
    /\ calls = <<>>
    /\ fetched = Undefined
    /\ client = ClientInit

Init == InitFrom(Requests)

InitFiles == InitFrom(FileRequests)

\* lines 180-182
UploadNoFile ==
    /\ pc = "start"
    /\ ~request.hasFile
    /\ response' = Append(response, [status |-> 400, error |-> "No file uploaded"])
    /\ pc' = "done"
    /\ UNCHANGED <<request, uploads, processedFiles, currentUploadId,
                   currentProcessedId, upload, fileTree, treePrefix,
                   formattedContent, stats, embedded, tmpFile, handlers,
                   calls, fetched, client>>

\* lines 184-195 and MemStorage.createUpload (storage.ts 23-32)
UploadCreateUpload ==
    /\ pc = "start"
    /\ request.hasFile
    /\ LET record == [id |-> currentUploadId, originalName |-> "archive.zip"]
       IN  /\ uploads' = MapSet(uploads, currentUploadId, record)
           /\ upload' = Some(record)
    /\ currentUploadId' = currentUploadId + 1
    /\ pc' = "created"
    /\ UNCHANGED <<request, processedFiles, currentProcessedId, fileTree,
                   treePrefix, formattedContent, stats, embedded, tmpFile,
                   response, handlers, calls, fetched, client>>

(***************************************************************************)
(* lines 198-278: the archive opens and buildFileTree returns; the         *)
(* document and the statistics are computed and the processed record is    *)
(* stored (MemStorage.createProcessedFile, storage.ts 38-47).              *)
(***************************************************************************)
UploadProcess ==
    /\ pc = "created"
    /\ ~request.corrupt
    /\ \E built \in {buildFileTree(request.entries)} :
        /\ ~built.threw
        /\ \E out \in {processTree(built.tree, request.entries)} :
            \E ms \in ElapsedMs :
            \E newStats \in {[totalFiles |-> out.totalFiles,
                              totalFolders |-> out.totalFolders,
                              linesOfCode |-> out.linesOfCode,
                              fileSize |-> fileSizeOf(request.size),
                              processingTime |-> processingTimeOf(ms)]} :
               /\ fileTree' = Some(built.tree)
               /\ treePrefix' = Some(built.commonPrefix)
               /\ formattedContent' = out.formattedContent
               /\ embedded' = out.embedded
               /\ stats' = Some(newStats)
               /\ processedFiles' =
                     MapSet(processedFiles, currentProcessedId,
                            [id |-> currentProcessedId, uploadId |-> upload[1].id,
                             fileTree |-> built.tree,
                             formattedContent |-> out.formattedContent,
                             stats |-> newStats])
    /\ currentProcessedId' = currentProcessedId + 1
    /\ pc' = "saved"
    /\ UNCHANGED <<request, uploads, currentUploadId, upload, tmpFile, response,
                   handlers, calls, fetched, client>>

(***************************************************************************)
(* lines 199-203 and 290-303: new AdmZip throws on a file that is no zip   *)
(* archive, or buildFileTree throws; the catch block removes the uploaded  *)
(* file and answers 400 with the error's message.                          *)
(***************************************************************************)
\* a plausible slip: the catch block logs and cleans up but sends nothing
UploadProcessFailsSilently ==
    /\ pc = "created"
    /\ request.corrupt \/ buildFileTree(request.entries).threw
    /\ tmpFile' = FALSE
    /\ pc' = "done"
    /\ UNCHANGED <<request, uploads, processedFiles, currentUploadId,
                   currentProcessedId, upload, fileTree, treePrefix,
                   formattedContent, stats, embedded, response, handlers,
                   calls, fetched, client>>

\* a plausible slip: the catch block answers without removing the file
UploadProcessFailsKeepsFile ==
    /\ pc = "created"
    /\ request.corrupt \/ buildFileTree(request.entries).threw
    /\ response' = Append(response,
                           [status |-> 400,
                            error |-> IF request.corrupt THEN "Invalid zip"
                                      ELSE "TypeError"])
    /\ pc' = "done"
    /\ UNCHANGED <<request, uploads, processedFiles, currentUploadId,
                   currentProcessedId, upload, fileTree, treePrefix,
                   formattedContent, stats, embedded, tmpFile, handlers,
                   calls, fetched, client>>

UploadProcessFails ==
    /\ pc = "created"
    /\ request.corrupt \/ buildFileTree(request.entries).threw
    /\ tmpFile' = FALSE
    /\ response' = Append(response,
                           [status |-> 400,
                            error |-> IF request.corrupt THEN "Invalid zip"
                                      ELSE "TypeError"])
    /\ pc' = "done"
    /\ UNCHANGED <<request, uploads, processedFiles, currentUploadId,
                   currentProcessedId, upload, fileTree, treePrefix,
                   formattedContent, stats, embedded, handlers, calls, fetched, client>>

\* lines 280-288
UploadRespond ==
    /\ pc = "saved"
    /\ tmpFile' = FALSE
    /\ response' = Append(response,
                           [status |-> 200, uploadId |-> upload[1].id,
                            fileTree |-> fileTree[1],
                            formattedContent |-> formattedContent,
                            stats |-> stats[1]])
    /\ pc' = "done"
    /\ UNCHANGED <<request, uploads, processedFiles, currentUploadId,
                   currentProcessedId, upload, fileTree, treePrefix,
                   formattedContent, stats, embedded, handlers, calls, fetched, client>>

Next ==
    \/ UploadNoFile
    \/ UploadCreateUpload
    \/ UploadProcess
    \/ UploadProcessFails
    \/ UploadRespond

Spec == Init /\ [][Next]_vars

\* the same handler over the archives of FilePool
SpecFiles == InitFiles /\ [][Next]_vars

(***************************************************************************)
(* Two requests in flight against the one MemStorage.  Node runs a handler *)
(* until it awaits, so the steps of a request are: up to the await of      *)
(* createUpload (line 195), from there up to the await of                  *)
(* createProcessedFile (line 278), and the rest.  Everything the handler   *)
(* declares (upload, fileTree, formattedContent, the counters) lives in    *)
(* the closure of its call, one per request: handlers[c].  The storage     *)
(* maps and the two id counters are the singleton's.  multer gives each    *)
(* uploaded file a name of its own (req.file.filename), here the client's  *)
(* name.                                                                   *)
(***************************************************************************)
Clients == {"A", "B"}

PairRequests ==
    { [name |-> "none"] @@ NoFileRequest,
      [name |-> "junk.zip"] @@ CorruptRequest,
      [name |-> "one.zip", hasFile |-> TRUE, corrupt |-> FALSE, size |-> 52428,
       entries |-> <<Entry("proj/src/a.py", "print(1)\n"), Entry("proj/src/b.txt", "")>>],
      [name |-> "two.zip", hasFile |-> TRUE, corrupt |-> FALSE, size |-> 52429,
       entries |-> <<Entry("b/y.md", "y\nz"), Entry("a/x.md", "# x")>>],
      [name |-> "clash.zip", hasFile |-> TRUE, corrupt |-> FALSE, size |-> 1572864,
       entries |-> <<Entry("a", "f"), Entry("a/x.md", "# x")>>] }

\* a handler at its entry
HandlerInit(req) ==
    [request |-> req, pc |-> "start", upload |-> Undefined, fileTree |-> Undefined,
     formattedContent |-> "", stats |-> Undefined, tmpFile |-> req.hasFile,
     response |-> Undefined]

InitTwo ==
    /\ handlers \in [Clients -> {HandlerInit(req) : req \in PairRequests}]
    /\ uploads = <<>>
    /\ processedFiles = <<>>
    /\ currentUploadId = 1
    /\ currentProcessedId = 1
    /\ request = NoFileRequest
    /\ pc = "off"
    /\ upload = Undefined
    /\ fileTree = Undefined
    /\ treePrefix = Undefined
    /\ formattedContent = ""
    /\ stats = Undefined
    /\ embedded = <<>>
    /\ tmpFile = FALSE
    /\ response = Undefined
    /\ calls = <<>>
    /\ fetched = Undefined
    /\ client = ClientInit

\* the variables of the request that runs alone
alone == <<request, pc, upload, fileTree, treePrefix, formattedContent, stats,
           embedded, tmpFile, response>>

\* a plausible slip: the counters are declared outside the handler and
\* keep what the runs before left in them
RunOfKeepsCounters(req, ms) ==
    LET built == buildFileTree(req.entries)
        out == processTree(built.tree, req.entries)
        before == Cardinality(DOMAIN processedFiles)
    IN  [threw |-> built.threw,
         fileTree |-> built.tree,
         formattedContent |-> out.formattedContent,
         stats |-> [totalFiles |-> out.totalFiles * (before + 1),
                    totalFolders |-> out.totalFolders * (before + 1),
                    linesOfCode |-> out.linesOfCode * (before + 1),
                    fileSize |-> fileSizeOf(req.size),
                    processingTime |-> processingTimeOf(ms)]]

\* lines 198-267: what the handler computes between the two awaits, for
\* an archive that opens; ms is the time the clock shows at line 258
RunOf(req, ms) ==
    LET built == buildFileTree(req.entries)
        out == processTree(built.tree, req.entries)
    IN  [threw |-> built.threw,
         fileTree |-> built.tree,
         formattedContent |-> out.formattedContent,
         stats |-> [totalFiles |-> out.totalFiles,
                    totalFolders |-> out.totalFolders,
                    linesOfCode |-> out.linesOfCode,
                    fileSize |-> fileSizeOf(req.size),
                    processingTime |-> processingTimeOf(ms)]]

\* a plausible slip: the upload is taken to be the one created last
ProcessedDataOfLatestUpload(c, run) ==
    [uploadId |-> currentUploadId - 1, fileTree |-> run.fileTree,
     formattedContent |-> run.formattedContent, stats |-> run.stats]

\* lines 270-275
ProcessedData(c, run) ==
    [uploadId |-> handlers[c].upload[1].id, fileTree |-> run.fileTree,
     formattedContent |-> run.formattedContent, stats |-> run.stats]

\* lines 180-182
ReqNoFile(c) ==
    /\ handlers[c].pc = "start"
    /\ ~handlers[c].request.hasFile
    /\ handlers' = [handlers EXCEPT
                       ![c].response = Append(@, [status |-> 400,
                                                  error |-> "No file uploaded"]),
                       ![c].pc = "done"]
    /\ UNCHANGED <<uploads, processedFiles, currentUploadId, currentProcessedId>>
    /\ UNCHANGED <<alone, calls, fetched, client>>

\* lines 184-195 and MemStorage.createUpload (storage.ts 23-32)
ReqCreateUpload(c) ==
    /\ handlers[c].pc = "start"
    /\ handlers[c].request.hasFile
    /\ LET record == [id |-> currentUploadId, filename |-> c,
                      originalName |-> handlers[c].request.name]
       IN  /\ uploads' = MapSet(uploads, currentUploadId, record)
           /\ handlers' = [handlers EXCEPT ![c].upload = Some(record),
                                           ![c].pc = "created"]
    /\ currentUploadId' = currentUploadId + 1
    /\ UNCHANGED <<processedFiles, currentProcessedId>>
    /\ UNCHANGED <<alone, calls, fetched, client>>

\* lines 198-278 and MemStorage.createProcessedFile (storage.ts 38-47)
ReqProcess(c) ==
    /\ handlers[c].pc = "created"
    /\ ~handlers[c].request.corrupt
    /\ \E ms \in ElapsedMs :
        \E run \in {RunOf(handlers[c].request, ms)} :
           /\ ~run.threw
           /\ handlers' = [handlers EXCEPT
                              ![c].fileTree = Some(run.fileTree),
                              ![c].formattedContent = run.formattedContent,
                              ![c].stats = Some(run.stats),
                              ![c].pc = "saved"]
           /\ processedFiles' =
                 MapSet(processedFiles, currentProcessedId,
                        [id |-> currentProcessedId] @@ ProcessedData(c, run))
    /\ currentProcessedId' = currentProcessedId + 1
    /\ UNCHANGED <<uploads, currentUploadId>>
    /\ UNCHANGED <<alone, calls, fetched, client>>

\* lines 199-203 and 290-303
ReqProcessFails(c) ==
    /\ handlers[c].pc = "created"
    /\ \/ handlers[c].request.corrupt
       \/ buildFileTree(handlers[c].request.entries).threw
    /\ handlers' = [handlers EXCEPT
                       ![c].tmpFile = FALSE,
                       ![c].response =
                           Append(@, [status |-> 400,
                                      error |-> IF handlers[c].request.corrupt
                                                THEN "Invalid zip" ELSE "TypeError"]),
                       ![c].pc = "done"]
    /\ UNCHANGED <<uploads, processedFiles, currentUploadId, currentProcessedId>>
    /\ UNCHANGED <<alone, calls, fetched, client>>

\* lines 280-288
ReqRespond(c) ==
    /\ handlers[c].pc = "saved"
    /\ handlers' = [handlers EXCEPT
                       ![c].tmpFile = FALSE,
                       ![c].response =
                           Append(@, [status |-> 200,
                                      uploadId |-> handlers[c].upload[1].id,
                                      fileTree |-> handlers[c].fileTree[1],
                                      formattedContent |-> handlers[c].formattedContent,
                                      stats |-> handlers[c].stats[1]]),
                       ![c].pc = "done"]
    /\ UNCHANGED <<uploads, processedFiles, currentUploadId, currentProcessedId>>
    /\ UNCHANGED <<alone, calls, fetched, client>>

\* storage.ts 34-36: Map.prototype.get
getUpload(id) == IF id \in DOMAIN uploads THEN Some(uploads[id]) ELSE Undefined

\* a plausible slip: the record is looked up under its own id
getProcessedFileById(uploadId) ==
    IF uploadId \in DOMAIN processedFiles THEN Some(processedFiles[uploadId])
    ELSE Undefined

\* storage.ts 49-53: the first record, in the order of insertion (which is
\* the order of the ids), whose uploadId is the one asked for
getProcessedFile(uploadId) ==
    LET hits == {id \in DOMAIN processedFiles : processedFiles[id].uploadId = uploadId}
    IN  IF hits = {} THEN Undefined
        ELSE Some(processedFiles[CHOOSE id \in hits : \A other \in hits : id <= other])

(***************************************************************************)
(* GET /api/processed/:uploadId, lines 307-326.  parseInt reads the        *)
(* decimal digits the parameter begins with and gives NaN (Undefined       *)
(* here) when there is none; the parameters drawn carry no sign, blank or  *)
(* radix prefix.  No record has the uploadId NaN.  fetched keeps the       *)
(* parameter, the answer, and the clients that had their answer to POST    *)
(* /api/upload when the GET was served.                                    *)
(***************************************************************************)
UploadIdParams == {"1", "2", "3", "x", "2x"}

RECURSIVE LeadingDigits(_)
LeadingDigits(str) ==
    IF Len(str) > 0 /\ IndexOf(Digits, Head(str)) # -1
    THEN Head(str) \o LeadingDigits(Tail(str))
    ELSE ""

RECURSIVE NumberOf(_)
NumberOf(digits) ==
    IF digits = "" THEN 0
    ELSE 10 * NumberOf(SubSeq(digits, 1, Len(digits) - 1))
         + IndexOf(Digits, SubSeq(digits, Len(digits), Len(digits)))

ParseInt(str) ==
    IF LeadingDigits(str) = "" THEN Undefined ELSE Some(NumberOf(LeadingDigits(str)))

GetProcessed(param) ==
    /\ LET uploadId == ParseInt(param)
           processedFile == IF uploadId = Undefined THEN Undefined
                            ELSE getProcessedFile(uploadId[1])
       IN  fetched' =
              Some([param |-> param,
                    answeredBefore |->
                       {c \in Clients : /\ handlers[c].pc = "done"
                                        /\ handlers[c].response[1].status = 200},
                    response |->
                       IF processedFile = Undefined
                       THEN [status |-> 404, error |-> "Processed file not found"]
                       ELSE [status |-> 200,
                             fileTree |-> processedFile[1].fileTree,
                             formattedContent |-> processedFile[1].formattedContent,
                             stats |-> processedFile[1].stats]])
    /\ UNCHANGED <<alone, uploads, processedFiles, currentUploadId,
                   currentProcessedId, handlers, calls, client>>

NextTwo ==
    \/ \E c \in Clients :
          \/ ReqNoFile(c)
          \/ ReqCreateUpload(c)
          \/ ReqProcess(c)
          \/ ReqProcessFails(c)
          \/ ReqRespond(c)
    \/ \E param \in UploadIdParams : GetProcessed(param)

SpecTwo == InitTwo /\ [][NextTwo]_vars

(***************************************************************************)
(* The MemStorage on its own (storage.ts 10-54): any sequence of calls of  *)
(* its methods.  The methods are async functions without an await in       *)
(* them, so the body of each runs in one piece at the call.  calls logs    *)
(* every call with its argument and what it returned.  The dates           *)
(* (uploadedAt, processedAt) are left out.                                 *)
(***************************************************************************)
MaxCalls == 4

InsertUploads == {[originalName |-> "one.zip"], [originalName |-> "two.zip"]}

InsertProcessedFiles ==
    {[uploadId |-> u, formattedContent |-> t] : u \in 1..2, t \in {"# a"}}

InitStore ==
    /\ uploads = <<>>
    /\ processedFiles = <<>>
    /\ currentUploadId = 1
    /\ currentProcessedId = 1
    /\ calls = <<>>
    /\ handlers = <<>>
    /\ fetched = Undefined
    /\ client = ClientInit
    /\ request = NoFileRequest
    /\ pc = "off"
    /\ upload = Undefined
    /\ fileTree = Undefined
    /\ treePrefix = Undefined
    /\ formattedContent = ""
    /\ stats = Undefined
    /\ embedded = <<>>
    /\ tmpFile = FALSE
    /\ response = Undefined

\* a plausible slip: the counter is read but not advanced
StoreCreateUploadSameId(insertUpload) ==
    /\ Len(calls) < MaxCalls
    /\ LET record == [id |-> currentUploadId] @@ insertUpload
       IN  /\ uploads' = MapSet(uploads, currentUploadId, record)
           /\ calls' = Append(calls, [op |-> "createUpload", arg |-> insertUpload,
                                      result |-> Some(record)])
    /\ UNCHANGED <<alone, processedFiles, currentUploadId, currentProcessedId,
                   handlers, fetched, client>>

\* storage.ts 23-32
StoreCreateUpload(insertUpload) ==
    /\ Len(calls) < MaxCalls
    /\ LET record == [id |-> currentUploadId] @@ insertUpload
       IN  /\ uploads' = MapSet(uploads, currentUploadId, record)
           /\ calls' = Append(calls, [op |-> "createUpload", arg |-> insertUpload,
                                      result |-> Some(record)])
    /\ currentUploadId' = currentUploadId + 1
    /\ UNCHANGED <<alone, processedFiles, currentProcessedId, handlers, fetched,
                   client>>

\* storage.ts 38-47
StoreCreateProcessedFile(insertProcessedFile) ==
    /\ Len(calls) < MaxCalls
    /\ LET record == [id |-> currentProcessedId] @@ insertProcessedFile
       IN  /\ processedFiles' = MapSet(processedFiles, currentProcessedId, record)
           /\ calls' = Append(calls, [op |-> "createProcessedFile",
                                      arg |-> insertProcessedFile,
                                      result |-> Some(record)])
    /\ currentProcessedId' = currentProcessedId + 1
    /\ UNCHANGED <<alone, uploads, currentUploadId, handlers, fetched, client>>

\* storage.ts 34-36
StoreGetUpload(id) ==
    /\ Len(calls) < MaxCalls
    /\ calls' = Append(calls, [op |-> "getUpload", arg |-> id, result |-> getUpload(id)])
    /\ UNCHANGED <<alone, uploads, processedFiles, currentUploadId,
                   currentProcessedId, handlers, fetched, client>>

\* storage.ts 49-53
StoreGetProcessedFile(uploadId) ==
    /\ Len(calls) < MaxCalls
    /\ calls' = Append(calls, [op |-> "getProcessedFile", arg |-> uploadId,
                               result |-> getProcessedFile(uploadId)])
    /\ UNCHANGED <<alone, uploads, processedFiles, currentUploadId,
                   currentProcessedId, handlers, fetched, client>>

NextStore ==
    \/ \E insertUpload \in InsertUploads : StoreCreateUpload(insertUpload)
    \/ \E insertProcessedFile \in InsertProcessedFiles :
          StoreCreateProcessedFile(insertProcessedFile)
    \/ \E id \in 0..currentUploadId : StoreGetUpload(id)
    \/ \E uploadId \in 1..2 : StoreGetProcessedFile(uploadId)

SpecStore == InitStore /\ [][NextStore]_vars

(***************************************************************************)
(* The FileUpload component (client/src/components/file-upload.tsx) under  *)
(* its page (client/src/pages/upload.tsx), which holds isProcessing and    *)
(* error.  Every event handler, timer callback and mutation callback runs  *)
(* in one piece.  uploadProgress is a whole number here and the timer      *)
(* adds one of ProgressSteps, where the source adds Math.random() * 10.    *)
(* A file can be chosen only while isProcessing is false (lines 147 and    *)
(* 158).  The number of files chosen in one behaviour is bounded.          *)
(***************************************************************************)
MaxSelections == 2

ProgressSteps == {1, 5, 9}

\* the files a user can pick: of type zip or not, over 100 MB or not
Files == [zip : BOOLEAN, tooBig : BOOLEAN]

InitClient ==
    /\ client = ClientInit
    /\ uploads = <<>>
    /\ processedFiles = <<>>
    /\ currentUploadId = 1
    /\ currentProcessedId = 1
    /\ calls = <<>>
    /\ handlers = <<>>
    /\ fetched = Undefined
    /\ request = NoFileRequest
    /\ pc = "off"
    /\ upload = Undefined
    /\ fileTree = Undefined
    /\ treePrefix = Undefined
    /\ formattedContent = ""
    /\ stats = Undefined
    /\ embedded = <<>>
    /\ tmpFile = FALSE
    /\ response = Undefined

\* everything but the client
server == <<alone, uploads, processedFiles, currentUploadId, currentProcessedId,
            handlers, calls, fetched>>

\* lines 89-117
handleFileSelection(file) ==
    /\ ~client.isProcessing
    /\ client.selections < MaxSelections
    /\ IF ~file.zip
       THEN client' = [client EXCEPT !.error = Some("Please select a ZIP file")]
       ELSE IF file.tooBig
       THEN client' = [client EXCEPT
                          !.error = Some("File size must be less than 100MB")]
       ELSE client' = [client EXCEPT
                          !.isProcessing = TRUE,
                          !.error = Undefined,
                          !.timers = @ \cup {client.selections + 1},
                          !.selections = @ + 1,
                          !.mutation = "pending"]
    /\ UNCHANGED server

\* lines 106-114: one run of the callback of the interval started at the
\* selection of that number
progressTick(timer, step) ==
    /\ timer \in client.timers
    /\ IF client.uploadProgress >= 90
       THEN client' = [client EXCEPT !.timers = @ \ {timer}, !.uploadProgress = 90]
       ELSE client' = [client EXCEPT !.uploadProgress = @ + step]
    /\ UNCHANGED server

\* lines 38-46
onSuccess ==
    /\ client.mutation = "pending"
    /\ client' = [client EXCEPT !.mutation = "success", !.error = Undefined,
                                !.uploadProgress = 0, !.isProcessing = FALSE]
    /\ UNCHANGED server

\* lines 47-56
onError ==
    /\ client.mutation = "pending"
    /\ client' = [client EXCEPT !.mutation = "error",
                                !.error = Some("400: upload failed"),
                                !.uploadProgress = 0, !.isProcessing = FALSE]
    /\ UNCHANGED server

\* lines 125-129, behind the button of lines 239-241
retryUpload ==
    /\ client.error # Undefined
    /\ client' = [client EXCEPT !.error = Undefined, !.uploadProgress = 0,
                                !.isProcessing = FALSE]
    /\ UNCHANGED server

NextClient ==
    \/ \E file \in Files : handleFileSelection(file)
    \/ \E timer \in 1..MaxSelections, step \in ProgressSteps : progressTick(timer, step)
    \/ onSuccess
    \/ onError
    \/ retryUpload

SpecClient == InitClient /\ [][NextClient]_vars

(***************************************************************************)
(* Vocabulary of the properties.                                           *)
(***************************************************************************)
\* every node of a forest, at any depth
RECURSIVE NodesOf(_)
NodesOf(nodes) ==
    UNION { {nodes[i]} \cup (IF nodes[i].children # Undefined
                             THEN NodesOf(nodes[i].children[1]) ELSE {}) :
            i \in 1..Len(nodes) }

\* the number of nodes of one type in a forest, by full traversal
RECURSIVE CountNodes(_, _)
CountNodes(nodes, type) ==
    IF nodes = <<>> THEN 0
    ELSE (IF Head(nodes).type = type THEN 1 ELSE 0)
         + (IF Head(nodes).children # Undefined
            THEN CountNodes(Head(nodes).children[1], type) ELSE 0)
         + CountNodes(Tail(nodes), type)

\* the paths of all nodes of a forest, in depth-first order
RECURSIVE PathsOf(_)
PathsOf(nodes) ==
    IF nodes = <<>> THEN <<>>
    ELSE <<Head(nodes).path>>
         \o (IF Head(nodes).children # Undefined
             THEN PathsOf(Head(nodes).children[1]) ELSE <<>>)
         \o PathsOf(Tail(nodes))

\* every sibling list of a forest: the roots and each children sequence
SiblingLists(nodes) ==
    {nodes} \cup {n.children[1] : n \in {m \in NodesOf(nodes) : m.children # Undefined}}

\* the path has a segment of the ignore set or a segment that starts with '.'
HasIgnoredSegment(path) ==
    LET segments == Split(path, "/")
    IN  \E i \in 1..Len(segments) :
           \/ segments[i] \in IGNORE_PATTERNS
           \/ (Len(segments[i]) > 0 /\ Head(segments[i]) = ".")

\* sub occurs in s
Contains(s, sub) ==
    \E i \in 1..(Len(s) - Len(sub) + 1) : SubSeq(s, i, i + Len(sub) - 1) = sub

RECURSIVE CountChar(_, _)
CountChar(s, c) ==
    IF Len(s) = 0 THEN 0
    ELSE (IF Head(s) = c THEN 1 ELSE 0) + CountChar(Tail(s), c)

IsPrefixSeq(p, q) == Len(p) <= Len(q) /\ SubSeq(q, 1, Len(p)) = p

\* the request ran through buildFileTree and processNode without an error
Processed == pc \in {"saved", "done"} /\ fileTree # Undefined

Succeeded == pc = "done" /\ response # Undefined /\ response[1].status = 200

\* the archive of the scenario of the specification, in any archive order
ScenarioArchive ==
    /\ Len(request.entries) = 3
    /\ {request.entries[i] : i \in 1..3} =
          { Entry("proj/src/a.py", "print(1)\n"), Entry("proj/src/b.txt", ""),
            Entry("proj/node_modules/x.js", "x") }

(***************************************************************************)
(* C1.  Ignore completeness: for an entry whose path has an ignored        *)
(* segment, no node of the returned tree, at any depth, has that entry's   *)
(* stripped path (as it stands, or with its empty segments removed).       *)
(***************************************************************************)
C1_IgnoreCompleteness ==
    Processed =>
        \A i \in 1..Len(request.entries) :
            HasIgnoredSegment(request.entries[i].entryName) =>
                LET clean == cleanPathOf(request.entries[i].entryName, treePrefix[1])
                IN  \A n \in NodesOf(fileTree[1]) :
                        n.path # clean /\ n.path # Join(partsOf(clean), "/")

\* an ignored entry under the stripped prefix, next to surviving nodes
C1_Witness ==
    /\ Processed
    /\ treePrefix[1] = "proj/"
    /\ Len(fileTree[1]) > 0
    /\ \E i \in 1..Len(request.entries) :
          request.entries[i].entryName = "proj/node_modules/x.js"

(***************************************************************************)
(* C2.  The document never embeds the bytes of an entry whose path has an  *)
(* ignored segment: every block appended by processNode carries the        *)
(* content of a non-ignored entry.  (Violated: the lookup of line 228      *)
(* searches all entries and accepts any name that ends with '/' + path.)   *)
(***************************************************************************)
C2_NoIgnoredContent ==
    \A k \in 1..Len(embedded) :
        ~HasIgnoredSegment(request.entries[embedded[k].entry].entryName)

(***************************************************************************)
(* C3.  Count consistency: totalFiles is the number of file nodes of the   *)
(* returned tree and totalFolders the number of its folder nodes, in the   *)
(* statistics computed and in the response sent.                           *)
(***************************************************************************)
C3_CountConsistency ==
    /\ Processed =>
          /\ stats[1].totalFiles = CountNodes(fileTree[1], "file")
          /\ stats[1].totalFolders = CountNodes(fileTree[1], "folder")
    /\ Succeeded =>
          /\ response[1].stats.totalFiles = CountNodes(response[1].fileTree, "file")
          /\ response[1].stats.totalFolders = CountNodes(response[1].fileTree, "folder")

\* a successful run with folders and with more files than blocks
C3_Witness ==
    /\ Succeeded
    /\ response[1].stats.totalFiles >= 2
    /\ response[1].stats.totalFolders >= 1
    /\ Len(embedded) >= 1
    /\ Len(embedded) < response[1].stats.totalFiles

(***************************************************************************)
(* C4.  Line-count additivity: the document is its header followed by one  *)
(* block per embedded file, and linesOfCode is the sum over exactly those  *)
(* files of the number of pieces of the content split on '\n' (one more    *)
(* than its number of newlines); the other files contribute 0.             *)
(***************************************************************************)
RECURSIVE BlocksOf(_)
BlocksOf(blocks) ==
    IF blocks = <<>> THEN ""
    ELSE formatFileContent(Head(blocks).path, Head(blocks).content)
         \o BlocksOf(Tail(blocks))

RECURSIVE PiecesOf(_)
PiecesOf(blocks) ==
    IF blocks = <<>> THEN 0
    ELSE CountChar(Head(blocks).content, "\n") + 1 + PiecesOf(Tail(blocks))

C4_LineCountAdditivity ==
    Processed =>
        /\ formattedContent = documentHeader(fileTree[1]) \o BlocksOf(embedded)
        /\ stats[1].linesOfCode = PiecesOf(embedded)

\* two embedded files, one of them with an inner newline, and a file without block
C4_Witness ==
    /\ Processed
    /\ Len(embedded) = 2
    /\ stats[1].totalFiles = 3
    /\ stats[1].linesOfCode = 3

(***************************************************************************)
(* C5.  A file whose content is one line ended by one newline contributes  *)
(* exactly 1 to linesOfCode, and the scenario archive reports              *)
(* linesOfCode = 1.  (Violated: split('\n') of "print(1)\n" has 2 pieces.) *)
(***************************************************************************)
C5_OneLineCountsOne ==
    Processed =>
        /\ ScenarioArchive => stats[1].linesOfCode = 1
        /\ ( /\ Len(embedded) = 1
             /\ CountChar(embedded[1].content, "\n") = 1
             /\ EndsWith(embedded[1].content, "\n") ) => stats[1].linesOfCode = 1

(***************************************************************************)
(* C6.  The scenario archive: 'proj/' is stripped, the forest has the one  *)
(* root folder src whose children are the files a.py and b.txt in that     *)
(* order, no node is named node_modules, the document has a block          *)
(* '### src/a.py' and none for src/b.txt, totalFiles = 2, totalFolders = 1.*)
(***************************************************************************)
C6_Scenario ==
    (pc = "done" /\ ScenarioArchive) =>
        /\ Succeeded
        /\ treePrefix[1] = "proj/"
        /\ Len(response[1].fileTree) = 1
        /\ LET src == response[1].fileTree[1]
           IN  /\ src.name = "src" /\ src.path = "src" /\ src.type = "folder"
               /\ src.children # Undefined
               /\ Len(src.children[1]) = 2
               /\ src.children[1][1].name = "a.py"
               /\ src.children[1][1].type = "file"
               /\ src.children[1][2].name = "b.txt"
               /\ src.children[1][2].type = "file"
        /\ \A n \in NodesOf(response[1].fileTree) : n.name # "node_modules"
        /\ Contains(response[1].formattedContent, "### src/a.py\n")
        /\ ~Contains(response[1].formattedContent, "### src/b.txt")
        /\ response[1].stats.totalFiles = 2
        /\ response[1].stats.totalFolders = 1

C6_Witness == Succeeded /\ ScenarioArchive

(***************************************************************************)
(* C7.  The prefix buildFileTree strips is decided from the full,          *)
(* unfiltered list of entries: the first entry's path up to and including  *)
(* its first '/' when every entry of the archive starts with it, and ""    *)
(* otherwise; stated for the runs whose tree has a node.  (Violated:        *)
(* buildFileTree decides over the entries that survive the ignore filter.) *)
(***************************************************************************)
PrefixOfAllEntries(entries) ==
    IF entries = <<>> \/ IndexOf(entries[1].entryName, "/") = -1 THEN ""
    ELSE LET candidate == SubSeq(entries[1].entryName, 1,
                                 IndexOf(entries[1].entryName, "/") + 1)
         IN  IF \A i \in 1..Len(entries) : StartsWith(entries[i].entryName, candidate)
             THEN candidate ELSE ""

C7_PrefixFromAllEntries ==
    (Processed /\ Len(fileTree[1]) > 0) =>
        /\ treePrefix[1] = PrefixOfAllEntries(request.entries)
        /\ {request.entries[i].entryName : i \in 1..Len(request.entries)}
              = {"a/x.md", "b/y.md"}
           => /\ Len(fileTree[1]) = 2
              /\ fileTree[1][1].path = "a"
              /\ fileTree[1][2].path = "b"

(***************************************************************************)
(* C8.  Ordering: in every sibling list the nodes appear in the order in   *)
(* which the walk over the entries sorted by entryName first created them, *)
(* for every segment name.  (Violated: Object.values lists the keys that   *)
(* are decimal integers first, in numeric order.)                          *)
(***************************************************************************)
\* the number, in sorted order, of the first surviving entry that runs through the node
CreatorOf(node) ==
    LET valid == validEntriesOf(request.entries)
        through == {k \in 1..Len(valid) :
                      IsPrefixSeq(Split(node.path, "/"),
                                  partsOf(cleanPathOf(valid[k].entryName, treePrefix[1])))}
    IN  IF through = {} THEN 0 ELSE CHOOSE k \in through : \A j \in through : k <= j

C8_SiblingOrder ==
    Processed =>
        \A siblings \in SiblingLists(fileTree[1]) :
            \A i, j \in 1..Len(siblings) :
                i < j => CreatorOf(siblings[i]) < CreatorOf(siblings[j])

(***************************************************************************)
(* C9.  Paths: no two nodes of the returned tree have the same path, a     *)
(* root's path is its name, and any other node's path is its parent's      *)
(* path, '/', and its own name.                                            *)
(***************************************************************************)
C9_PathInvariant ==
    Processed =>
        /\ \A i \in 1..Len(fileTree[1]) : fileTree[1][i].path = fileTree[1][i].name
        /\ \A n \in NodesOf(fileTree[1]) :
              n.children # Undefined =>
                  \A i \in 1..Len(n.children[1]) :
                      n.children[1][i].path = n.path \o "/" \o n.children[1][i].name
        /\ LET paths == PathsOf(fileTree[1])
           IN  \A i, j \in 1..Len(paths) : paths[i] = paths[j] => i = j

\* a tree three levels deep with a second root
C9_Witness ==
    /\ Processed
    /\ Len(fileTree[1]) >= 2
    /\ \E n \in NodesOf(fileTree[1]) : n.path = "proj/src/a.py"

FileNodesOf(nodes) == {n \in NodesOf(nodes) : n.type = "file"}

\* the name, in lower case, ends with an extension of the allow-list
HasAllowedExtension(name) ==
    \E x \in ALLOWED_EXTENSIONS : EndsWith(ToLowerCase(name), x)

\* a block was appended for the node of this path
HasBlock(path) ==
    \/ \E k \in 1..Len(embedded) : embedded[k].path = path
    \/ Contains(formattedContent, "### " \o path \o "\n")

\* the text consists of white space only, or is empty
IsBlank(content) ==
    \A i \in 1..Len(content) : SubSeq(content, i, i) \in WhiteSpace

\* the entry that line 228 finds for the node in this run; 0 if none
FoundFor(node) ==
    EntryFor(node, request.entries, handlerCommonPrefix(request.entries))

(***************************************************************************)
(* C11.  A file node whose lower-cased extension is not on the allow-list  *)
(* (a name without extension included) is in the tree as a node of type    *)
(* file and is counted in totalFiles, and the document has no block for    *)
(* it, whatever its entry holds.                                           *)
(***************************************************************************)
C11_UnlistedFilesListedOnly ==
    Processed =>
        /\ stats[1].totalFiles = Cardinality(FileNodesOf(fileTree[1]))
        /\ \A n \in FileNodesOf(fileTree[1]) :
              ~HasAllowedExtension(n.name) => ~HasBlock(n.path)

\* a successful run with a counted file without extension whose entry has
\* text, next to an embedded file whose extension is written in upper case
C11_Witness ==
    /\ Succeeded
    /\ \E n \in FileNodesOf(fileTree[1]) :
          /\ ~HasAllowedExtension(n.name)
          /\ getFileExtension(n.name) = ""
          /\ FoundFor(n) # 0
          /\ ~IsBlank(request.entries[FoundFor(n)].data)
    /\ \E k \in 1..Len(embedded) : embedded[k].path = "Main.PY"
    /\ response[1].stats.totalFiles > Len(embedded)

(***************************************************************************)
(* C12.  A file node with an allow-listed extension whose decoded content  *)
(* is empty or white space only gets no block and adds nothing to          *)
(* linesOfCode (the sum runs over the blocks only); it is still counted    *)
(* in totalFiles and is in the tree.                                       *)
(***************************************************************************)
C12_BlankFilesListedOnly ==
    Processed =>
        /\ stats[1].totalFiles = Cardinality(FileNodesOf(fileTree[1]))
        /\ stats[1].linesOfCode = PiecesOf(embedded)
        /\ \A n \in FileNodesOf(fileTree[1]) :
              (/\ HasAllowedExtension(n.name)
               /\ FoundFor(n) # 0
               /\ Readable(request.entries[FoundFor(n)])
               /\ IsBlank(request.entries[FoundFor(n)].data))
              => ~HasBlock(n.path)

\* a successful run with an empty and a white-space-only file on the
\* allow-list, and an embedded file
C12_Witness ==
    /\ Succeeded
    /\ \E n, m \in FileNodesOf(fileTree[1]) :
          /\ HasAllowedExtension(n.name) /\ HasAllowedExtension(m.name)
          /\ FoundFor(n) # 0 /\ FoundFor(m) # 0
          /\ request.entries[FoundFor(n)].data = ""
          /\ request.entries[FoundFor(m)].data # ""
          /\ IsBlank(request.entries[FoundFor(m)].data)
    /\ Len(embedded) = 1
    /\ response[1].stats.totalFiles = 3
    /\ response[1].stats.linesOfCode = PiecesOf(embedded)

(***************************************************************************)
(* C13.  A file whose entry cannot be read, or for whose node no entry is  *)
(* found, is counted and gets no block and no lines; the blocks and the    *)
(* line counts of the other files are those of the run in which every      *)
(* entry can be read, and the run is answered with 200.                    *)
(***************************************************************************)
\* the same archive with every entry readable
MakeReadable(entries) ==
    [i \in DOMAIN entries |-> [entries[i] EXCEPT !.readable = TRUE]]

C13_FailedReadSkipsOneFile ==
    Processed =>
        LET entries == request.entries
            hyp == processTree(fileTree[1], MakeReadable(entries))
            kept == SelectSeq(hyp.embedded, LAMBDA b : Readable(entries[b.entry]))
            lost == SelectSeq(hyp.embedded, LAMBDA b : ~Readable(entries[b.entry]))
        IN  /\ embedded = kept
            /\ formattedContent = documentHeader(fileTree[1]) \o BlocksOf(kept)
            /\ stats[1].linesOfCode = hyp.linesOfCode - PiecesOf(lost)
            /\ stats[1].totalFiles = hyp.totalFiles
            /\ stats[1].totalFiles = Cardinality(FileNodesOf(fileTree[1]))
            /\ stats[1].totalFolders = hyp.totalFolders
            /\ \A n \in FileNodesOf(fileTree[1]) :
                  (FoundFor(n) = 0 \/ ~Readable(entries[FoundFor(n)]))
                  => ~HasBlock(n.path)
            /\ response # Undefined => response[1].status = 200

\* a run answered with 200 in which one allow-listed file could not be
\* read, for another one no entry was found, and a third one is embedded
C13_Witness ==
    /\ Succeeded
    /\ \E n, m \in FileNodesOf(fileTree[1]) :
          /\ HasAllowedExtension(n.name) /\ HasAllowedExtension(m.name)
          /\ FoundFor(n) # 0 /\ ~Readable(request.entries[FoundFor(n)])
          /\ FoundFor(m) = 0
    /\ Len(embedded) = 1
    /\ response[1].stats.totalFiles = 3

(***************************************************************************)
(* C14.  When the uploaded file cannot be opened as an archive, or         *)
(* buildFileTree throws, the request is answered exactly once, with an     *)
(* error status and an error message and without fileTree,                 *)
(* formattedContent or stats, and no processed-file record is stored for   *)
(* the upload.                                                             *)
(***************************************************************************)
\* the request carries a file on which new AdmZip or buildFileTree throws
ProcessingThrows ==
    /\ request.hasFile
    /\ request.corrupt \/ buildFileTree(request.entries).threw

C14_FailureAnswersOnceStoresNothing ==
    /\ Len(response) <= 1
    /\ ProcessingThrows =>
          /\ processedFiles = <<>>
          /\ fileTree = Undefined /\ stats = Undefined /\ formattedContent = ""
          /\ pc = "done" =>
                /\ Len(response) = 1
                /\ response[1].status >= 400
                /\ DOMAIN response[1] = {"status", "error"}
                /\ upload # Undefined =>
                      \A id \in DOMAIN processedFiles :
                         processedFiles[id].uploadId # upload[1].id

\* a finished request whose archive opened but whose tree construction
\* threw, after the upload record had been created
C14_Witness ==
    /\ pc = "done"
    /\ request.hasFile /\ ~request.corrupt /\ Len(request.entries) >= 2
    /\ buildFileTree(request.entries).threw
    /\ upload # Undefined /\ upload[1].id \in DOMAIN uploads
    /\ Len(response) = 1 /\ response[1].status = 400

(***************************************************************************)
(* C16.  Common-prefix stripping.  The names that survive the ignore       *)
(* filter share a top-level folder when all of them begin with the same    *)
(* non-empty first segment followed by '/'.  Restripped is the result of   *)
(* running lines 56-77 once more, on the stripped names.                   *)
(***************************************************************************)
ValidNames ==
    {request.entries[i].entryName :
        i \in {j \in 1..Len(request.entries) :
                  ~shouldIgnore(request.entries[j].entryName)}}

SharedTopFolders(names) ==
    {f \in UNION {{SubSeq(n, 1, k) : k \in 2..Len(n)} : n \in names} :
        /\ SubSeq(f, Len(f), Len(f)) = "/"
        /\ ~Contains(SubSeq(f, 1, Len(f) - 1), "/")
        /\ \A n \in names : IsPrefixSeq(f, n)}

StrippedNames == {cleanPathOf(n, treePrefix[1]) : n \in ValidNames}

\* the entries that survive, under their stripped names, in the order of line 58
StrippedEntries ==
    LET valid == validEntriesOf(request.entries)
    IN  [i \in 1..Len(valid) |->
            [valid[i] EXCEPT !.entryName = cleanPathOf(@, treePrefix[1])]]

\* the prefix a second run of the detection finds
RestrippedPrefix == treeCommonPrefix(validEntriesOf(StrippedEntries))

C18_BlockHoldsCreatorsContent ==
    Processed =>
        \A k \in 1..Len(embedded) :
            LET creator == CreatorOf([path |-> embedded[k].path])
            IN  /\ creator # 0
                /\ validEntriesOf(request.entries)[creator]
                      = request.entries[embedded[k].entry]
                /\ embedded[k].content
                      = validEntriesOf(request.entries)[creator].data

(***************************************************************************)
(* C19.  The prefix that buildFileTree strips equals the prefix that the   *)
(* handler computes for the content lookup, so that for every file node    *)
(* the handler's prefix followed by the node's path is the name of an      *)
(* entry of the archive.  (Violated: buildFileTree detects the prefix on   *)
(* the entries that survive the ignore filter, the handler on all.)        *)
(***************************************************************************)
C19_SamePrefixInBothPhases ==
    (Processed /\ Len(fileTree[1]) > 0) =>
        /\ treePrefix[1] = handlerCommonPrefix(request.entries)
        /\ \A n \in FileNodesOf(fileTree[1]) :
              \E i \in 1..Len(request.entries) :
                 request.entries[i].entryName
                    = handlerCommonPrefix(request.entries) \o n.path

(***************************************************************************)
(* C20.  When a surviving entry creates a file node N and an entry later   *)
(* in sorted order runs through N as a folder, the request does not fail:  *)
(* the tree is built and N is in it as a file, with its size and without   *)
(* children.  (Violated: line 98 steps into the children of the file       *)
(* node, which are undefined, and line 84 throws a TypeError.)             *)
(***************************************************************************)
\* the segments of the sorted surviving entry k, after stripping
SegmentsOfValid(k) ==
    LET valid == validEntriesOf(request.entries)
    IN  partsOf(cleanPathOf(valid[k].entryName, treeCommonPrefix(valid)))

\* pairs <<k, l>>: entry k ends in a file N, the later entry l runs through N
FileThenFolderPairs ==
    LET valid == validEntriesOf(request.entries)
    IN  {p \in (1..Len(valid)) \X (1..Len(valid)) :
            /\ p[1] < p[2]
            /\ ~valid[p[1]].isDirectory
            /\ Len(SegmentsOfValid(p[1])) > 0
            /\ Len(SegmentsOfValid(p[1])) < Len(SegmentsOfValid(p[2]))
            /\ IsPrefixSeq(SegmentsOfValid(p[1]), SegmentsOfValid(p[2]))}

C20_FileThenFolderFirstWins ==
    (pc = "done" /\ request.hasFile /\ ~request.corrupt) =>
        \A p \in FileThenFolderPairs :
            /\ Succeeded
            /\ \E n \in FileNodesOf(response[1].fileTree) :
                  /\ n.path = Join(SegmentsOfValid(p[1]), "/")
                  /\ n.size # Undefined
                  /\ n.children = Undefined

(***************************************************************************)
(* Vocabulary of the two-request properties.                               *)
(***************************************************************************)
\* the request of client c was answered with 200
Answered(c) ==
    /\ handlers[c].pc = "done"
    /\ Len(handlers[c].response) = 1
    /\ handlers[c].response[1].status = 200

\* the upload records created for the file that client c sent
OwnUploads(c) == {id \in DOMAIN uploads : uploads[id].filename = c}

\* the processed records stored for an upload
RecordsOf(uploadId) ==
    {id \in DOMAIN processedFiles : processedFiles[id].uploadId = uploadId}

\* the counters of the statistics, without the two display strings
CountsOf(st) ==
    <<st.totalFiles, st.totalFolders, st.linesOfCode>>

(***************************************************************************)
(* C15.  Determinism: two requests over the same archive (the same         *)
(* entries in the same order, the same number of bytes) that are answered  *)
(* with 200 get the same fileTree, the same formattedContent and the same  *)
(* totalFiles, totalFolders, linesOfCode and fileSize, whatever the        *)
(* storage held when they ran and whatever the clock showed; so do the     *)
(* records stored for them.  processingTime and the ids may differ.        *)
(***************************************************************************)
C15_Deterministic ==
    \A c, d \in DOMAIN handlers :
        (/\ Answered(c) /\ Answered(d)
         /\ handlers[c].request.entries = handlers[d].request.entries
         /\ handlers[c].request.size = handlers[d].request.size)
        => LET r == handlers[c].response[1]
               q == handlers[d].response[1]
           IN  /\ r.fileTree = q.fileTree
               /\ r.formattedContent = q.formattedContent
               /\ CountsOf(r.stats) = CountsOf(q.stats)
               /\ r.stats.fileSize = q.stats.fileSize
               /\ \A i \in RecordsOf(r.uploadId), j \in RecordsOf(q.uploadId) :
                     /\ processedFiles[i].fileTree = processedFiles[j].fileTree
                     /\ processedFiles[i].formattedContent
                           = processedFiles[j].formattedContent
                     /\ CountsOf(processedFiles[i].stats)
                           = CountsOf(processedFiles[j].stats)

\* the same archive with files and a folder sent twice and answered twice,
\* under different upload ids and with different elapsed times
C15_Witness ==
    /\ Answered("A") /\ Answered("B")
    /\ handlers["A"].request = handlers["B"].request
    /\ handlers["A"].response[1].stats.totalFiles = 2
    /\ handlers["A"].response[1].stats.totalFolders = 1
    /\ handlers["A"].response[1].stats.fileSize = "0.0MB"
    /\ handlers["A"].response[1].uploadId # handlers["B"].response[1].uploadId
    /\ handlers["A"].response[1].stats.processingTime
          # handlers["B"].response[1].stats.processingTime

(***************************************************************************)
(* C17.  Two requests interleaved at the awaits do not affect each other:  *)
(* each is answered once, with what the handler computes for its own       *)
(* archive alone (fileTree, formattedContent, totalFiles, totalFolders,    *)
(* linesOfCode, or the error), and the one processed record stored for it  *)
(* carries the id of the upload record created for its own file and the    *)
(* same results.                                                           *)
(***************************************************************************)
C17_ConcurrentRequestsIndependent ==
    \A c \in DOMAIN handlers :
        LET h == handlers[c]
            built == buildFileTree(h.request.entries)
            out == processTree(built.tree, h.request.entries)
            fails == ~h.request.hasFile \/ h.request.corrupt \/ built.threw
        IN  /\ Cardinality(OwnUploads(c)) <= 1
            /\ h.upload # Undefined => OwnUploads(c) = {h.upload[1].id}
            /\ (h.pc \in {"saved", "done"} /\ ~fails) =>
                  \E id \in DOMAIN processedFiles :
                     /\ {i \in DOMAIN processedFiles :
                            processedFiles[i].uploadId \in OwnUploads(c)} = {id}
                     /\ processedFiles[id].fileTree = built.tree
                     /\ processedFiles[id].formattedContent = out.formattedContent
                     /\ CountsOf(processedFiles[id].stats)
                           = <<out.totalFiles, out.totalFolders, out.linesOfCode>>
            /\ fails =>
                  {i \in DOMAIN processedFiles :
                      processedFiles[i].uploadId \in OwnUploads(c)} = {}
            /\ h.pc = "done" =>
                  /\ Len(h.response) = 1
                  /\ IF fails THEN h.response[1].status = 400
                     ELSE /\ h.response[1].status = 200
                          /\ h.response[1].uploadId \in OwnUploads(c)
                          /\ h.response[1].fileTree = built.tree
                          /\ h.response[1].formattedContent = out.formattedContent
                          /\ CountsOf(h.response[1].stats)
                                = <<out.totalFiles, out.totalFolders, out.linesOfCode>>

\* two different archives, both answered with 200, after an interleaving:
\* A's upload was created first, B's results were stored first
C17_Witness ==
    /\ Answered("A") /\ Answered("B")
    /\ handlers["A"].request.name = "one.zip"
    /\ handlers["B"].request.name = "two.zip"
    /\ handlers["A"].response[1].uploadId = 1
    /\ handlers["B"].response[1].uploadId = 2
    /\ processedFiles[1].uploadId = 2
    /\ processedFiles[2].uploadId = 1
    /\ handlers["A"].response[1].fileTree # handlers["B"].response[1].fileTree

(***************************************************************************)
(* C21.  Every surviving entry that is no directory and whose stripped     *)
(* path has a non-empty segment is in the returned tree as a file node     *)
(* with that stripped path (empty segments dropped), whatever the          *)
(* segments are called; every node stems from the stripped path of a       *)
(* surviving entry, so the directory entry that is the common prefix       *)
(* itself gives no node.  (Violated: line 84 tests current[part], which    *)
(* is truthy for the names every object inherits from Object.prototype,    *)
(* so no node is created for a file called 'constructor'.)                 *)
(***************************************************************************)
C21_EveryFileEntryHasNode ==
    Processed =>
        LET valid == validEntriesOf(request.entries)
        IN  /\ \A k \in 1..Len(valid) :
                  (~valid[k].isDirectory /\ SegmentsOfValid(k) # <<>>)
                  => \E n \in FileNodesOf(fileTree[1]) :
                        n.path = Join(SegmentsOfValid(k), "/")
            /\ \A n \in NodesOf(fileTree[1]) :
                  Len(n.name) > 0 /\ CreatorOf(n) # 0

(***************************************************************************)
(* C22.  generateFileTreeString writes one line per node, in depth-first   *)
(* pre-order along the children sequences.  A node is named by its         *)
(* position, the sequence of indices that leads to it from the roots.      *)
(* Its line is: for every proper ancestor, four spaces if that ancestor    *)
(* is the last of its siblings and the vertical bar with three spaces      *)
(* otherwise; then the connector of the last sibling or of the others;     *)
(* then the folder or the file icon; then the name.                        *)
(***************************************************************************)
\* the positions of all nodes below `at`, from sibling i on, in pre-order
RECURSIVE PositionsFrom(_, _, _)
PositionsFrom(nodes, at, i) ==
    IF i > Len(nodes) THEN <<>>
    ELSE <<Append(at, i)>>
         \o (IF nodes[i].children # Undefined
             THEN PositionsFrom(nodes[i].children[1], Append(at, i), 1)
             ELSE <<>>)
         \o PositionsFrom(nodes, at, i + 1)

\* the sibling list in which the node at the position stands
RECURSIVE SiblingsAt(_, _)
SiblingsAt(nodes, pos) ==
    IF Len(pos) = 1 THEN nodes
    ELSE SiblingsAt(nodes[Head(pos)].children[1], Tail(pos))

NodeAt(nodes, pos) == SiblingsAt(nodes, pos)[pos[Len(pos)]]

IsLastAt(nodes, pos) == pos[Len(pos)] = Len(SiblingsAt(nodes, pos))

RECURSIVE IndentAt(_, _)
IndentAt(nodes, pos) ==
    IF Len(pos) = 1 THEN ""
    ELSE LET parent == SubSeq(pos, 1, Len(pos) - 1)
         IN  IndentAt(nodes, parent)
             \o (IF IsLastAt(nodes, parent) THEN "    " ELSE "|   ")

ExpectedLine(nodes, pos) ==
    IndentAt(nodes, pos)
    \o (IF IsLastAt(nodes, pos) THEN "+-- " ELSE "|-- ")
    \o (IF NodeAt(nodes, pos).type = "folder" THEN "D " ELSE "F ")
    \o NodeAt(nodes, pos).name

C22_OneLinePerNode ==
    Processed =>
        LET nodes == fileTree[1]
            rendered == generateFileTreeString(nodes, "")
            positions == PositionsFrom(nodes, <<>>, 1)
        IN  /\ Len(positions) = Cardinality(NodesOf(nodes))
            /\ Split(rendered, "\n")
                  = [k \in 1..Len(positions) |-> ExpectedLine(nodes, positions[k])]
                    \o <<"">>
            /\ IsPrefixSeq("# Project Structure and Contents\n\n## File Tree\n\n~~~\n"
                           \o rendered \o "~~~\n", formattedContent)

\* a rendered tree with a folder that is not the last root and has a
\* child, and a last root that has a child
C22_Witness ==
    /\ Succeeded
    /\ Len(fileTree[1]) >= 2
    /\ Contains(formattedContent, "|-- D a\n|   +-- F x.md\n")
    /\ Contains(formattedContent, "+-- D b\n    +-- F y.md\n")

(***************************************************************************)
(* C23.  The blocks stand in the document in the depth-first order of the  *)
(* returned tree, one block per embedded file, after the title, the File   *)
(* Tree section and the File Contents heading, which hold no block.        *)
(***************************************************************************)
\* the place of the node with this path in the depth-first order of the tree
DepthFirstPlace(path) ==
    LET paths == PathsOf(fileTree[1])
    IN  IF \E i \in 1..Len(paths) : paths[i] = path
        THEN CHOOSE i \in 1..Len(paths) : paths[i] = path
        ELSE 0

C23_BlocksInTreeOrder ==
    Processed =>
        LET header == documentHeader(fileTree[1])
        IN  /\ \A k \in 1..Len(embedded) :
                  /\ DepthFirstPlace(embedded[k].path) # 0
                  /\ \A l \in 1..Len(embedded) :
                        k < l => DepthFirstPlace(embedded[k].path)
                                    < DepthFirstPlace(embedded[l].path)
            /\ formattedContent = header \o BlocksOf(embedded)
            /\ IsPrefixSeq("# Project Structure and Contents\n\n## File Tree\n\n", header)
            /\ EndsWith(header, "\n\n## File Contents\n\n")
            /\ ~Contains(header, "### ")

\* three blocks at two levels, in an order that is not the archive's
C23_Witness ==
    /\ Succeeded
    /\ Len(embedded) = 3
    /\ \E k \in 1..3 : Contains(embedded[k].path, "/")
    /\ \E k \in 1..3 : ~Contains(embedded[k].path, "/")
    /\ \E k, l \in 1..3 : k < l /\ embedded[k].entry > embedded[l].entry

(***************************************************************************)
(* C26.  Once a request that carried a file has been answered, with 200    *)
(* or with an error, the uploaded temporary file is gone; before the       *)
(* answer it is there.  The upload record of a request that was answered   *)
(* with an error has no processed-file record.                             *)
(***************************************************************************)
C26_TempFileGoneAtResponse ==
    /\ (request.hasFile /\ Len(response) > 0) => ~tmpFile
    /\ (request.hasFile /\ pc \in {"start", "created"}) => tmpFile
    /\ pc = "done" => Len(response) > 0
    /\ (upload # Undefined /\ Len(response) > 0 /\ response[1].status # 200) =>
          /\ upload[1].id \in DOMAIN uploads
          /\ \A id \in DOMAIN processedFiles :
                processedFiles[id].uploadId # upload[1].id

\* a request with a file that is no archive, answered with an error after
\* its upload record was stored
C26_Witness ==
    /\ pc = "done"
    /\ request.hasFile /\ request.corrupt
    /\ uploads # <<>> /\ upload # Undefined
    /\ Len(response) = 1 /\ response[1].error = "Invalid zip"
    /\ ~tmpFile

(***************************************************************************)
(* C24.  After any sequence of calls on one MemStorage: the k-th           *)
(* createUpload returned id k and the k-th createProcessedFile returned    *)
(* id k (distinct, increasing from 1 in call order); each map holds,       *)
(* under every id handed out, the record that was returned with it,        *)
(* unchanged, and nothing else; every getUpload(id) returned the record    *)
(* that the createUpload with that id had returned before, and undefined   *)
(* for an id not handed out by then.                                       *)
(***************************************************************************)
\* the calls of one method among the first n calls, in call order
CallsOf(op, n) == SelectSeq(SubSeq(calls, 1, n), LAMBDA call : call.op = op)

C24_StorageIds ==
    LET created == CallsOf("createUpload", Len(calls))
        stored == CallsOf("createProcessedFile", Len(calls))
    IN  /\ \A k \in 1..Len(created) :
              /\ created[k].result[1].id = k
              /\ created[k].result[1] = [id |-> k] @@ created[k].arg
              /\ k \in DOMAIN uploads /\ uploads[k] = created[k].result[1]
        /\ DOMAIN uploads = 1..Len(created)
        /\ \A k \in 1..Len(stored) :
              /\ stored[k].result[1].id = k
              /\ stored[k].result[1] = [id |-> k] @@ stored[k].arg
              /\ k \in DOMAIN processedFiles
              /\ processedFiles[k] = stored[k].result[1]
        /\ DOMAIN processedFiles = 1..Len(stored)
        /\ \A j \in 1..Len(calls) :
              calls[j].op = "getUpload" =>
                 LET before == CallsOf("createUpload", j)
                 IN  calls[j].result
                        = IF calls[j].arg \in 1..Len(before)
                          THEN before[calls[j].arg].result
                          ELSE Undefined

\* two uploads and a processed record were created, then getUpload was
\* asked for the first upload
C24_Witness ==
    /\ Len(calls) = 4
    /\ Len(CallsOf("createUpload", 3)) = 2
    /\ Len(CallsOf("createProcessedFile", 3)) = 1
    /\ calls[4].op = "getUpload" /\ calls[4].arg = 1
    /\ calls[4].result # Undefined
    /\ calls[4].result[1].originalName # uploads[2].originalName

(***************************************************************************)
(* C25.  A GET /api/processed/u served after POST /api/upload was          *)
(* answered with 200 and uploadId u returns status 200 with the fileTree,  *)
(* the formattedContent and the stats of that answer, whatever other       *)
(* uploads ran before, between or after; a GET for which the storage has   *)
(* no processed record with that uploadId returns 404, and only such a     *)
(* GET does.                                                               *)
(***************************************************************************)
C25_GetReturnsWhatUploadReturned ==
    fetched # Undefined =>
        LET got == fetched[1]
            u == ParseInt(got.param)
        IN  /\ got.response.status \in {200, 404}
            /\ \A c \in got.answeredBefore :
                  u = Some(handlers[c].response[1].uploadId) =>
                     got.response
                        = [status |-> 200,
                           fileTree |-> handlers[c].response[1].fileTree,
                           formattedContent |-> handlers[c].response[1].formattedContent,
                           stats |-> handlers[c].response[1].stats]
            /\ (u = Undefined \/ (u # Undefined /\ RecordsOf(u[1]) = {}))
                  => got.response.status = 404
            /\ got.response.status = 404 =>
                  \A c \in got.answeredBefore :
                     u # Some(handlers[c].response[1].uploadId)

\* both uploads were answered, the first upload's results were stored
\* second (under record id 2), and a GET for upload 1 returned them
C25_Witness ==
    /\ fetched # Undefined
    /\ fetched[1].param = "1"
    /\ fetched[1].answeredBefore = Clients
    /\ fetched[1].response.status = 200
    /\ processedFiles[2].uploadId = 1
    /\ processedFiles[1].fileTree # processedFiles[2].fileTree
    /\ fetched[1].response.fileTree = processedFiles[2].fileTree

(***************************************************************************)
(* C27.  Once an upload has finished (onSuccess or onError ran) and until  *)
(* the next file is chosen, uploadProgress is 0, whatever the order of     *)
(* the timer callbacks and the response.  (Violated: the interval is       *)
(* cleared only by its own callback, once uploadProgress has reached 90;   *)
(* an upload that finishes earlier leaves it running, and its next run     *)
(* raises uploadProgress from 0 again.)                                    *)
(***************************************************************************)
C27_ProgressStaysZeroAfterFinish ==
    client.mutation \in {"success", "error"} => client.uploadProgress = 0

=============================================================================
